---- MODULE Spec2Model ----
(***************************************************************************)
(* State-machine model of src/src/analyzer.py: SoftSkillQuestion,          *)
(* QuestionFactory, User and SoftSkillsQuiz.                               *)
(*                                                                         *)
(* A caller constructs questions (phase "build"), constructs a             *)
(* SoftSkillsQuiz over them ("ready"), and then calls ask_question,        *)
(* check_answer, add_score and run_quiz.  ask_question blocks in input();  *)
(* the model splits it at that call (phase "prompt") and takes one step    *)
(* per line read from standard input.  Texts that no branch depends on     *)
(* (question_text, Answer.text, Answer.explanation, User.name) are left    *)
(* out of the records.                                                     *)
(***************************************************************************)
EXTENDS Integers, Sequences, FiniteSets, TLC

\* ---------------------------------------------------------------- bounds
MaxQuestions == 1     \* length of a caller-built question list
MaxAnswers == 1       \* answers passed to one SoftSkillQuestion(...) call
MaxDifficulty == 1    \* largest difficulty a caller passes
MaxLineLen == 2       \* characters in one line typed at the prompt
MaxAddCalls == 1      \* direct User.add_score calls by the caller
MaxRuns == 1          \* run_quiz invocations
MaxIndex == 3         \* largest index passed to check_answer

Difficulties == (0 - 1)..MaxDifficulty
PointInputs == {0 - 10, 0, 10}
CheckIndices == (0 - 2)..MaxIndex
TypeInputs == {"LEADERSHIP"}
Chars == {"1", "2", "3", "a", "-", " "}
Digits == {"1", "2", "3"}

SeqsUpTo(S, n) == UNION {[1..k -> S] : k \in 0..n}

Lines == SeqsUpTo(Chars, MaxLineLen)

\* ------------------------------------------------------------ Answer
Answer(is_correct) == [is_correct |-> is_correct]

AnswerLists == SeqsUpTo({Answer(TRUE), Answer(FALSE)}, MaxAnswers)

\* ------------------------------------------------- SoftSkillQuestion
\* A plausible slip: all() where any() was meant.
validate_answers_all(answers) == \A k \in 1..Len(answers) : answers[k].is_correct

\* any(answer.is_correct for answer in self.answers)
validate_answers(answers) == \E k \in 1..Len(answers) : answers[k].is_correct

\* The constructor: the new object, or the ValueError of _validate_answers.
SoftSkillQuestion(answers, question_type, difficulty) ==
    [raised |-> ~validate_answers(answers),
     obj |-> [answers |-> answers, question_type |-> question_type,
              difficulty |-> difficulty]]

IsCorrect(a) == a.is_correct

\* Python's list[j]: j counts from 0, a negative j counts from the end, and
\* anything else is an IndexError.
ListGet(list, j) ==
    IF 0 <= j /\ j < Len(list) THEN [raised |-> FALSE, item |-> list[j + 1]]
    ELSE IF j < 0 /\ 0 - j <= Len(list)
         THEN [raised |-> FALSE, item |-> list[Len(list) + j + 1]]
         ELSE [raised |-> TRUE, item |-> Answer(FALSE)]

get_correct_answers(q) == SelectSeq(q.answers, IsCorrect)

\* A plausible slip: the lower bound of the range test is forgotten.
check_answer_no_lower(q, answer_index) ==
    IF answer_index < Len(q.answers)
    THEN [raised |-> ListGet(q.answers, answer_index).raised,
          val |-> ListGet(q.answers, answer_index).item.is_correct]
    ELSE [raised |-> FALSE, val |-> FALSE]

check_answer(q, answer_index) ==
    IF 0 <= answer_index /\ answer_index < Len(q.answers)
    THEN [raised |-> ListGet(q.answers, answer_index).raised,
          val |-> ListGet(q.answers, answer_index).item.is_correct]
    ELSE [raised |-> FALSE, val |-> FALSE]

\* --------------------------------------------------- QuestionFactory
create_communication_question ==
    SoftSkillQuestion(<<Answer(FALSE), Answer(TRUE), Answer(FALSE)>>,
                      "COMMUNICATION", 2)

create_teamwork_question ==
    SoftSkillQuestion(<<Answer(FALSE), Answer(TRUE), Answer(FALSE)>>,
                      "CONFLICT", 3)

\* random.choice(creators)(): either creator may be the one called.
create_random_question == {create_communication_question, create_teamwork_question}

\* -------------------------------------------------------------- User
\* A plausible slip: "=" where "+=" was meant.
add_score_assign(score, points) == points

add_score(score, points) == score + points

\* ---------------------------------------------------- SoftSkillsQuiz
load_default_questions ==
    <<create_communication_question.obj,
      create_teamwork_question.obj,
      SoftSkillQuestion(<<Answer(FALSE), Answer(TRUE), Answer(FALSE)>>,
                        "FEEDBACK", 2).obj>>

\* ------------------------------------------------ int(input(...))
RECURSIVE LStrip(_)
LStrip(s) == IF s # <<>> /\ Head(s) = " " THEN LStrip(Tail(s)) ELSE s

RECURSIVE RStrip(_)
RStrip(s) ==
    IF s # <<>> /\ s[Len(s)] = " " THEN RStrip(SubSeq(s, 1, Len(s) - 1)) ELSE s

Strip(s) == RStrip(LStrip(s))

DigitVal(c) ==
    CASE c = "1" -> 1 [] c = "2" -> 2 [] c = "3" -> 3

RECURSIVE DigitsValue(_)
DigitsValue(s) ==
    IF s = <<>> THEN 0
    ELSE 10 * DigitsValue(SubSeq(s, 1, Len(s) - 1)) + DigitVal(s[Len(s)])

AllDigits(s) == s # <<>> /\ \A k \in 1..Len(s) : s[k] \in Digits

\* Python's int(str): surrounding whitespace is ignored, one leading sign is
\* allowed ("-" is the sign in Chars), the rest must be a non-empty run of
\* digits; anything else is a ValueError.
ParseInt(line) ==
    LET s == Strip(line)
        neg == s # <<>> /\ Head(s) = "-"
        body == IF neg THEN Tail(s) ELSE s
    IN IF AllDigits(body)
       THEN [raised |-> FALSE,
             val |-> IF neg THEN 0 - DigitsValue(body) ELSE DigitsValue(body)]
       ELSE [raised |-> TRUE, val |-> 0]

\* What int(input(...)) can come to on the lines considered.
ParseResults == {ParseInt(line) : line \in Lines}

\* ------------------------------------------------------ _show_results
RECURSIVE SumDifficulty(_)
SumDifficulty(qs) ==
    IF qs = <<>> THEN 0 ELSE Head(qs).difficulty * 10 + SumDifficulty(Tail(qs))

max_score(qs) == SumDifficulty(qs)

\* A plausible slip: the factor 100 is forgotten.
percentage_no_scale(score, qs) ==
    IF max_score(qs) > 0
    THEN [num |-> score, den |-> max_score(qs)]
    ELSE [num |-> 0, den |-> 1]

\* percentage = score / max_score * 100 if max_score > 0 else 0, kept as the
\* exact fraction num/den with den > 0.  The float the code computes falls on
\* the same side of 80 and of 60 as this fraction for every score and total
\* of the sizes considered here.
percentage(score, qs) ==
    IF max_score(qs) > 0
    THEN [num |-> score * 100, den |-> max_score(qs)]
    ELSE [num |-> 0, den |-> 1]

verdict(p) ==
    IF p.num >= 80 * p.den THEN "excellent"
    ELSE IF p.num >= 60 * p.den THEN "good"
    ELSE "needs_work"

show_results(score, answered, qs) ==
    [score |-> score, answered |-> Len(answered),
     percentage |-> percentage(score, qs),
     verdict |-> verdict(percentage(score, qs))]

\* ------------------------------------------------------------- state
VARIABLES
    built,                    \* questions the caller has constructed so far
    questions,                \* SoftSkillsQuiz.questions
    current_question_index,   \* SoftSkillsQuiz.current_question_index
    score,                    \* User.score
    answered_questions,       \* User.answered_questions
    pc,                       \* "build", "ready", "prompt" or "eof"
    inRun,                    \* ask_question was called by run_quiz
    last,                     \* the most recent call and what it returned
    output,                   \* final reports printed so far
    choices,                  \* the valid selections read so far
    addCalls,                 \* direct User.add_score calls so far
    runs                      \* run_quiz invocations so far

vars == <<built, questions, current_question_index, score, answered_questions,
          pc, inRun, last, output, choices, addCalls, runs>>

NoCall == [op |-> "none", q |-> 0, i |-> 0, val |-> FALSE, raised |-> FALSE,
           answers |-> <<>>]

Call(op) == [NoCall EXCEPT !.op = op]

\* User.__init__ and the program state before any question is constructed.
Init ==
    /\ built = <<>>
    /\ questions = <<>>
    /\ current_question_index = 0
    /\ score = 0
    /\ answered_questions = <<>>
    /\ pc = "build"
    /\ inRun = FALSE
    /\ last = NoCall
    /\ output = <<>>
    /\ choices = <<>>
    /\ addCalls = 0
    /\ runs = 0

\* --------------------------------------------------------- operations

\* The caller evaluates r = SoftSkillQuestion(...) and, unless it raised,
\* puts the new question on its list.
Built(r) ==
    /\ pc = "build"
    /\ Len(built) < MaxQuestions
    /\ built' = IF r.raised THEN built ELSE Append(built, r.obj)
    /\ last' = [Call("SoftSkillQuestion") EXCEPT !.raised = r.raised,
                                                 !.answers = r.obj.answers]
    /\ UNCHANGED <<questions, current_question_index, score,
                   answered_questions, pc, inRun, output, choices, addCalls,
                   runs>>

Construct ==
    \E answers \in AnswerLists, t \in TypeInputs, d \in Difficulties :
       /\ pc = "build"
       /\ Built(SoftSkillQuestion(answers, t, d))

CreateRandom ==
    \E r \in create_random_question :
       /\ pc = "build"
       /\ Built(r)

\* user.add_score(points), called by the caller itself.
AddScore ==
    /\ pc \in {"build", "ready"}
    /\ addCalls < MaxAddCalls
    /\ \E points \in PointInputs : score' = add_score(score, points)
    /\ addCalls' = addCalls + 1
    /\ last' = Call("add_score")
    /\ UNCHANGED <<built, questions, current_question_index,
                   answered_questions, pc, inRun, output, choices, runs>>

\* SoftSkillsQuiz(user, built): an empty list is falsy, so the defaults load.
NewQuiz ==
    /\ pc = "build"
    /\ questions' = IF built # <<>> THEN built ELSE load_default_questions
    /\ current_question_index' = 0
    /\ pc' = "ready"
    /\ last' = Call("SoftSkillsQuiz")
    /\ UNCHANGED <<built, score, answered_questions, inRun, output, choices,
                   addCalls, runs>>

\* built[k].check_answer(i) on a question the caller has constructed.
CheckAnswer(k, i) ==
    /\ pc = "build"
    /\ k \in 1..Len(built)
    /\ last' = [Call("check_answer") EXCEPT !.q = k, !.i = i,
                                            !.val = check_answer(built[k], i).val,
                                            !.raised = check_answer(built[k], i).raised]
    /\ UNCHANGED <<built, questions, current_question_index, score,
                   answered_questions, pc, inRun, output, choices, addCalls,
                   runs>>

CheckAnswerCall ==
    \E k \in 1..MaxQuestions, i \in CheckIndices :
       /\ pc = "build"
       /\ CheckAnswer(k, i)

\* ask_question() called by the caller: the early return, or the prompt.
AskQuestion ==
    /\ pc = "ready"
    /\ IF current_question_index >= Len(questions)
       THEN /\ last' = Call("ask_question")
            /\ UNCHANGED pc
       ELSE /\ last' = Call("prompt")
            /\ pc' = "prompt"
    /\ UNCHANGED <<built, questions, current_question_index, score,
                   answered_questions, inRun, output, choices, addCalls, runs>>

\* A plausible slip: _show_results() is called before the loop, not after it.
RunQuizReportFirst ==
    /\ pc = "ready"
    /\ runs < MaxRuns
    /\ runs' = runs + 1
    /\ output' = Append(output,
                     show_results(score, answered_questions, questions))
    /\ IF current_question_index < Len(questions)
       THEN /\ pc' = "prompt"
            /\ inRun' = TRUE
            /\ last' = Call("prompt")
       ELSE /\ last' = Call("run_quiz")
            /\ UNCHANGED <<pc, inRun>>
    /\ UNCHANGED <<built, questions, current_question_index, score,
                   answered_questions, choices, addCalls>>

\* run_quiz(): the while loop enters ask_question, or, with nothing left to
\* ask, goes straight to _show_results and returns.
RunQuiz ==
    /\ pc = "ready"
    /\ runs < MaxRuns
    /\ runs' = runs + 1
    /\ IF current_question_index < Len(questions)
       THEN /\ pc' = "prompt"
            /\ inRun' = TRUE
            /\ last' = Call("prompt")
            /\ UNCHANGED output
       ELSE /\ output' = Append(output,
                            show_results(score, answered_questions, questions))
            /\ last' = Call("run_quiz")
            /\ UNCHANGED <<pc, inRun>>
    /\ UNCHANGED <<built, questions, current_question_index, score,
                   answered_questions, choices, addCalls>>

question == questions[current_question_index + 1]

\* if 1 <= choice <= len(question.answers)
InRange(choice, q) == 1 <= choice /\ choice <= Len(q.answers)

\* A plausible slip: the append to the history is indented one level too
\* little and runs on every iteration of the loop.
RepromptAppend(message) ==
    /\ last' = Call(message)
    /\ answered_questions' = Append(answered_questions, question)
    /\ UNCHANGED <<built, questions, current_question_index, score, pc, inRun,
                   output, choices, addCalls, runs>>

\* The loop body for a line that is not a valid selection: the guidance
\* message is printed and the loop iterates.
Reprompt(message) ==
    /\ last' = Call(message)
    /\ UNCHANGED <<built, questions, current_question_index, score,
                   answered_questions, pc, inRun, output, choices, addCalls,
                   runs>>

\* The state change of a valid selection, given the new index and history;
\* inside run_quiz the while loop then asks the next question or, when the
\* index has reached the question count, prints the report and returns.
SelectUpdate(choice, selected_answer, newIndex, newAnswered) ==
    LET newScore == IF selected_answer.is_correct
                    THEN add_score(score, question.difficulty * 10)
                    ELSE score
    IN /\ last' = [Call("ask_question") EXCEPT !.q = current_question_index + 1,
                                               !.i = choice,
                                               !.val = selected_answer.is_correct]
       /\ score' = newScore
       /\ current_question_index' = newIndex
       /\ answered_questions' = newAnswered
       /\ choices' = Append(choices, choice)
       /\ IF inRun
          THEN IF newIndex < Len(questions)
               THEN UNCHANGED <<pc, inRun, output>>
               ELSE /\ pc' = "ready"
                    /\ inRun' = FALSE
                    /\ output' = Append(output,
                                    show_results(newScore, newAnswered, questions))
          ELSE /\ pc' = "ready"
               /\ UNCHANGED <<inRun, output>>
       /\ UNCHANGED <<built, questions, addCalls, runs>>

\* A plausible slip: the index is advanced inside the "correct" branch only.
SelectAdvanceIfCorrect(choice) ==
    LET selected_answer == ListGet(question.answers, choice - 1).item
    IN SelectUpdate(choice, selected_answer,
                    IF selected_answer.is_correct
                    THEN current_question_index + 1
                    ELSE current_question_index,
                    Append(answered_questions, question))

\* A plausible slip: the history is appended inside the "correct" branch only.
SelectAppendIfCorrect(choice) ==
    LET selected_answer == ListGet(question.answers, choice - 1).item
    IN SelectUpdate(choice, selected_answer, current_question_index + 1,
                    IF selected_answer.is_correct
                    THEN Append(answered_questions, question)
                    ELSE answered_questions)

\* The loop body for a valid selection: selected_answer is looked up, the
\* index advances by one and the question joins the history.
Select(choice) ==
    SelectUpdate(choice, ListGet(question.answers, choice - 1).item,
                 current_question_index + 1,
                 Append(answered_questions, question))

\* One iteration of the while True loop of ask_question, r being what
\* int(input(...)) came to: a ValueError or the integer choice.
Iteration(r) ==
    /\ pc = "prompt"
    /\ IF r.raised
       THEN Reprompt("enter_number")
       ELSE IF InRange(r.val, question)
            THEN Select(r.val)
            ELSE Reprompt("enter_in_range")

\* Every line that int() rejects takes the same step, and so does every
\* integer outside the range: the line read decides only which branch runs.
ReadNonNumeric ==
    /\ pc = "prompt"
    /\ {r \in ParseResults : r.raised} # {}
    /\ Reprompt("enter_number")

ReadOutOfRange ==
    /\ pc = "prompt"
    /\ {r \in ParseResults : ~r.raised /\ ~InRange(r.val, question)} # {}
    /\ Reprompt("enter_in_range")

ReadValid ==
    \E r \in ParseResults :
       /\ pc = "prompt"
       /\ ~r.raised
       /\ InRange(r.val, question)
       /\ Iteration(r)

\* End of input: input() raises EOFError, which nothing catches.
ReadEOF ==
    /\ pc = "prompt"
    /\ pc' = "eof"
    /\ last' = [Call("EOFError") EXCEPT !.raised = TRUE]
    /\ UNCHANGED <<built, questions, current_question_index, score,
                   answered_questions, inRun, output, choices, addCalls, runs>>

Next ==
    \/ Construct
    \/ CreateRandom
    \/ AddScore
    \/ NewQuiz
    \/ CheckAnswerCall
    \/ AskQuestion
    \/ RunQuiz
    \/ ReadNonNumeric
    \/ ReadOutOfRange
    \/ ReadValid
    \/ ReadEOF

Spec == Init /\ [][Next]_vars

\* Every prompt is eventually given a valid selection unless input ends.
LiveSpec == Spec /\ WF_vars(ReadValid)

\* ------------------------------------------------------------ properties

QuizExists == pc # "build"

IsPrefix(s, t) == Len(s) <= Len(t) /\ SubSeq(t, 1, Len(s)) = s

\* Points earned by the selections ch on the first Len(ch) questions of qs.
RECURSIVE Earned(_, _)
Earned(qs, ch) ==
    IF ch = <<>> THEN 0
    ELSE LET n == Len(ch)
         IN Earned(qs, SubSeq(ch, 1, n - 1))
            + (IF qs[n].answers[ch[n]].is_correct THEN 10 * qs[n].difficulty ELSE 0)

\* A step in which ask_question processed a valid selection and returned.
SelectionStep == last'.op = "ask_question" /\ last'.q > 0 /\ choices' # choices

\* C1: a valid selection on a question of difficulty d adds exactly 10*d to
\* the score when the selected answer is correct and leaves the score as it
\* was when the selected answer is incorrect.
C1_ScoreDelta ==
    [][SelectionStep =>
         LET q == questions[current_question_index + 1]
             picked == q.answers[last'.i]
         IN /\ last'.i \in 1..Len(q.answers)
            /\ picked.is_correct => score' = score + 10 * q.difficulty
            /\ ~picked.is_correct => score' = score]_vars

C1_Witness ==
    /\ pc = "ready"
    /\ Len(choices) = 2
    /\ addCalls = 0
    /\ questions[1].difficulty = 2
    /\ questions[1].answers[choices[1]].is_correct
    /\ ~questions[2].answers[choices[2]].is_correct
    /\ score = 20

\* C2: once every configured question has been answered the index equals the
\* question count, and an ask_question call made then returns False without
\* prompting and leaves score, history and index as they were.
C2_AskAfterEnd ==
    /\ [](QuizExists /\ Len(choices) = Len(questions)
            => current_question_index = Len(questions))
    /\ [][(/\ pc = "ready"
           /\ current_question_index >= Len(questions)
           /\ last'.op \in {"ask_question", "prompt"})
          => /\ last' = Call("ask_question")
             /\ pc' = "ready"
             /\ UNCHANGED <<score, answered_questions, current_question_index,
                            choices, output>>]_vars

C2_Witness ==
    /\ pc = "ready"
    /\ last = Call("ask_question")
    /\ Len(questions) = 3
    /\ Len(choices) = 3
    /\ current_question_index = 3

\* C3: inside ask_question a line that is not an integer, or is an integer
\* outside 1..number of answers, leaves index, score and history untouched
\* and leads back to the prompt without raising; index, score and history
\* change at the prompt only by a line that is an integer in that range.
C3_Reprompt ==
    [][pc = "prompt" =>
         \A r \in ParseResults :
            Iteration(r) =>
               LET n == Len(questions[current_question_index + 1].answers)
                   valid == ~r.raised /\ 1 <= r.val /\ r.val <= n
               IN /\ ~valid => /\ pc' = "prompt"
                               /\ ~last'.raised
                               /\ UNCHANGED <<current_question_index, score,
                                              answered_questions, choices, output>>
                  /\ valid => current_question_index' = current_question_index + 1]_vars

C3_Witness ==
    /\ pc = "prompt"
    /\ last = Call("enter_in_range")
    /\ Len(question.answers) = 3
    /\ current_question_index = 1
    /\ Len(answered_questions) = 1

\* C4: SoftSkillQuestion(...) raises exactly when no answer passed to it is
\* correct (an empty list included) and then yields no question; every
\* question that exists, the factories' and the defaults included, has a
\* non-empty get_correct_answers().
C4_Validated ==
    /\ [](/\ last.op = "SoftSkillQuestion"
             => (last.raised <=> \A k \in 1..Len(last.answers) :
                                    ~last.answers[k].is_correct)
          /\ \A k \in 1..Len(built) : get_correct_answers(built[k]) # <<>>
          /\ \A k \in 1..Len(questions) : get_correct_answers(questions[k]) # <<>>
          /\ \A r \in create_random_question :
                ~r.raised /\ get_correct_answers(r.obj) # <<>>
          /\ \A k \in 1..Len(load_default_questions) :
                get_correct_answers(load_default_questions[k]) # <<>>)
    /\ [][last'.op = "SoftSkillQuestion" /\ last'.raised => built' = built]_vars

C4_Witness ==
    /\ last.op = "SoftSkillQuestion"
    /\ last.raised
    /\ Len(last.answers) = 1
    /\ built = <<>>

\* C5: check_answer(i) returns False for every i outside 0..len(answers)-1,
\* negative i included, returns the flag of answers[i] otherwise, never
\* raises and never changes the question.
C5_CheckAnswer ==
    [][last'.op = "check_answer" =>
         LET q == built[last'.q]
             i == last'.i
         IN /\ ~last'.raised
            /\ (i < 0 \/ i >= Len(q.answers)) => last'.val = FALSE
            /\ (0 <= i /\ i < Len(q.answers)) => last'.val = q.answers[i + 1].is_correct
            /\ built' = built]_vars

C5_Witness ==
    /\ last.op = "check_answer"
    /\ last.i = 0 - 1
    /\ ~last.val
    /\ built[last.q].answers[Len(built[last.q].answers)].is_correct

\* C6: with no add_score call from outside, the score is the sum of
\* 10*difficulty over the questions answered with a correct selection; on
\* the three default questions option 2 every time reports 70 of 70, 100%,
\* the top message, and a wrong option every time reports 0, 0%, the
\* needs-improvement message.
C6_FinalScore ==
    /\ (QuizExists /\ addCalls = 0) => score = Earned(questions, choices)
    /\ (/\ questions = load_default_questions
        /\ addCalls = 0
        /\ Len(choices) = 3
        /\ output # <<>>)
       => /\ choices = <<2, 2, 2>>
             => /\ output[1].score = 70
                /\ max_score(questions) = 70
                /\ output[1].percentage.num = 100 * output[1].percentage.den
                /\ output[1].verdict = "excellent"
          /\ (\A k \in 1..3 : choices[k] # 2)
             => /\ output[1].score = 0
                /\ output[1].percentage.num = 0
                /\ output[1].verdict = "needs_work"

C6_Witness ==
    /\ questions = load_default_questions
    /\ addCalls = 0
    /\ choices = <<2, 2, 2>>
    /\ Len(output) = 1
    /\ output[1].verdict = "excellent"

\* score / total * 100 >= t as the claim computes it, with 0 for total = 0.
ClaimedAtLeast(sc, total, t) ==
    IF total = 0 THEN 0 >= t
    ELSE IF total > 0 THEN 100 * sc >= t * total
    ELSE 100 * sc <= t * total

\* C7: the verdict of every report follows percentage = score / (sum of
\* 10*difficulty over the configured questions) * 100, taken as 0 when that
\* sum is 0: top message iff >= 80, encouraging iff >= 60 and < 80,
\* needs-improvement iff < 60.
C7_VerdictBands ==
    \A k \in 1..Len(output) :
       LET sc == output[k].score
           total == max_score(questions)
       IN /\ output[k].verdict = "excellent" <=> ClaimedAtLeast(sc, total, 80)
          /\ output[k].verdict = "good"
                <=> ClaimedAtLeast(sc, total, 60) /\ ~ClaimedAtLeast(sc, total, 80)
          /\ output[k].verdict = "needs_work" <=> ~ClaimedAtLeast(sc, total, 60)

\* C8: the score is never negative and never goes down, and the history
\* only grows by appending.
C8_ScoreMonotone ==
    /\ [](score >= 0)
    /\ [][score' >= score /\ IsPrefix(answered_questions, answered_questions')]_vars

\* C9: a valid selection, correct or not, advances the index by exactly one,
\* appends the asked question to the history and returns the selected
\* answer's flag; so the history is always the first current_question_index
\* configured questions, in order.
C9_AdvanceAppend ==
    /\ [][SelectionStep =>
            LET q == questions[current_question_index + 1]
            IN /\ current_question_index' = current_question_index + 1
               /\ answered_questions' = Append(answered_questions, q)
               /\ last'.val = q.answers[last'.i].is_correct]_vars
    /\ [](answered_questions = SubSeq(questions, 1, current_question_index))

C9_Witness ==
    /\ last.op = "ask_question"
    /\ last.q = 2
    /\ ~last.val
    /\ current_question_index = 2
    /\ answered_questions = SubSeq(questions, 1, 2)
    /\ questions[1] # questions[2]

RunReturned ==
    /\ ~inRun
    /\ pc = "ready"
    /\ current_question_index = Len(questions)
    /\ Len(output) = runs

\* C10: the index never decreases and never exceeds the question count; a
\* report is printed only by a step that ends run_quiz with every question
\* answered, one per run_quiz call; and a run_quiz whose prompts keep
\* receiving valid selections (input does not end) reaches that end.
C10_Lifecycle ==
    /\ [][current_question_index' >= current_question_index]_vars
    /\ [](current_question_index <= Len(questions))
    /\ [](Len(output) = IF inRun THEN runs - 1 ELSE runs)
    /\ [][output' # output
            => /\ output' = Append(output, show_results(score', answered_questions',
                                                        questions))
               /\ current_question_index' = Len(questions)
               /\ Len(answered_questions') = Len(questions)
               /\ ~inRun' /\ pc' = "ready"]_vars
    /\ (inRun ~> (RunReturned \/ pc = "eof"))

C10_Witness ==
    /\ RunReturned
    /\ runs = 1
    /\ Len(questions) = 3
    /\ Len(choices) = 3
    /\ last.op = "ask_question"

====
